---- MODULE Spec2Model ----
(***************************************************************************)
(* Model of the Regain backend (backend/app/main.py, backend/app/db.py):   *)
(* session login/logout, and the list / create / delete handlers of the    *)
(* simulations resource over a SQLite store.                               *)
(*                                                                         *)
(* Strings are sequences of one-character strings, so that strip() and     *)
(* lower() are computed rather than assumed.  Python's None is the value   *)
(* None below.  Every handler opens its own connection (db.get_conn), so   *)
(* a write statement opens an implicit transaction whose effects stay in   *)
(* the connection (tx) until commit; every SELECT of a connection that has *)
(* no open transaction reads the committed tables.  SQLite admits one      *)
(* writer at a time (lock); a second writer waits.                         *)
(*                                                                         *)
(* A handler that touches the store with one statement at most (login,     *)
(* logout, me, list, and the early returns of create and delete) is one    *)
(* action.  create and delete take one action per statement, so that       *)
(* other requests interleave between their SELECT, their writes and their  *)
(* commit.  The session is the cookie of a client: a request reads it on   *)
(* arrival and keeps the user id in uid.  last holds the request and the   *)
(* response of the exchange that completed last.                           *)
(*                                                                         *)
(* The schema (migrations/001_init.sql) and app.auth follow the data       *)
(* model of the specification: ids of simulations are handed out in        *)
(* increasing order and never reused, a (user, simulation) pair has one    *)
(* membership row at most, and a password verifies against its own hash    *)
(* only.  Init is a store as seeding leaves it: the users, and at most one *)
(* simulation with its memberships, one of which has the role 'admin'.     *)
(*                                                                         *)
(* Spec runs the handlers alone.  No handler removes an account, changes a *)
(* role or grants a membership on a simulation that exists; SpecStale,     *)
(* SpecRoles and SpecGrant add these writes as actions of the environment, *)
(* each taking the write lock like a handler's transaction.                *)
(***************************************************************************)
EXTENDS Integers, Sequences, FiniteSets, TLC

\* ------------------------------------------------------------------ bounds
NumUsers == 2      \* rows of the users table
NumClients == 1    \* browser sessions (cookies)
NumReq == 2        \* requests in flight at the same time
MaxId == 2         \* cap on the ids the simulations table hands out
MaxRemoved == 1    \* cap on the accounts removed from the users table

UserIds == 1..NumUsers
Clients == 1..NumClients
Req == 1..NumReq

\* ----------------------------------------------------------------- strings
None == <<"None">>
NoUser == 0        \* request.session.get("user_id") of an unbound session

ADMIN == <<"a", "d", "m", "i", "n">>
ADMIN_CAP == <<"A", "d", "m", "i", "n">>
MEMBER == <<"m", "e", "m", "b", "e", "r">>
USER == <<"u", "s", "e", "r">>
RUNNING == <<"r", "u", "n">>
PHISHING == <<"p", "h", "i", "s", "h">>
DASH == <<"-">>
NOW == <<"n", "o", "w">>
NOW_PLUS_7 == <<"n", "o", "w", "+", "7">>

\* str.lower() on one character (the alphabet of the model)
LowerChar(c) ==
  CASE c = "A" -> "a"
    [] c = "B" -> "b"
    [] c = "Q" -> "q"
    [] OTHER -> c

\* str.lower()
Lower(s) == [i \in 1..Len(s) |-> LowerChar(s[i])]

RECURSIVE LStrip(_)
LStrip(s) == IF s # <<>> /\ Head(s) = " " THEN LStrip(Tail(s)) ELSE s

RECURSIVE RStrip(_)
RStrip(s) ==
  IF s # <<>> /\ s[Len(s)] = " " THEN RStrip(SubSeq(s, 1, Len(s) - 1)) ELSE s

\* str.strip()
Strip(s) == RStrip(LStrip(s))

\* Python's  x or d  on an optional string
Or(x, d) == IF x = None \/ x = <<>> THEN d ELSE x

\* COALESCE(x, d) on a text column
COALESCE(x, d) == IF x = None THEN d ELSE x

\* SQL NULL in an integer column, and COALESCE(x, d) on such a column
NULL_INT == 0 - 1
COALESCE_INT(x, d) == IF x = NULL_INT THEN d ELSE x

\* app.auth.hash_password / verify_password
hash_password(p) == <<"#">> \o p
verify_password(p, h) == h = hash_password(p)

\* main._is_admin
_is_admin(role) == Lower(Or(role, <<>>)) = ADMIN

\* ------------------------------------------------------------------- state
VARIABLES
  users,             \* users table: id -> [email, password_hash, role, name]
  simulations,       \* committed rows of simulations
  user_simulations,  \* committed rows of user_simulations
  seq,               \* largest id the simulations table has handed out
  lock,              \* the request whose connection holds the write lock
  tx,                \* tables as seen inside the open transaction
  session,           \* client -> bound user id, NoUser when unbound
  pc,                \* request -> position in its handler
  req,               \* request -> the locals of its handler
  last               \* the latest exchange: the request and its response

vars == <<users, simulations, user_simulations, seq, lock, tx, session,
          pc, req, last>>
store == <<users, simulations, user_simulations, seq>>

NoLock == 0
NoTx == [simulations |-> {}, user_simulations |-> {}, seq |-> 0]
NoReq == [op |-> "none", client |-> 0, uid |-> NoUser, name |-> None,
          type |-> None, simulation_id |-> 0, sim_id |-> 0,
          membership |-> <<>>, email |-> None, password |-> None]

\* a JSON response: status code, the "error" text, the "ok" flag and the
\* rows of the payload ("simulations", "simulation" or "user")
Response(code, err, ok, rows) ==
  [status |-> code, error |-> err, ok |-> ok, data |-> rows]
NoResp == Response(0, "", FALSE, <<>>)
Error(code, msg) == Response(code, msg, FALSE, <<>>)
Unauthenticated == Error(401, "Not authenticated")
NotFound == Error(404, "Not found")
Forbidden == Error(403, "Forbidden")
NameRequired == Error(400, "Simulation name is required")
LoginRequired == Error(400, "Email and password required")
InvalidCredentials == Error(401, "Invalid email or password")
\* an exception that leaves the handler (the framework answers 500)
InternalError == Error(500, "Internal Server Error")
Ok == Response(200, "", TRUE, <<>>)

\* --------------------------------------------------------- SQL statements
Max(S) == CHOOSE x \in S : \A y \in S : y <= x

\* fetchone() yields <<row>>, or <<>> for Python's None (no row)
NoRow == <<>>

\* SELECT ... FROM users WHERE email = ?   (fetchone)
SelectUserByEmail(u, email) ==
  IF \E i \in DOMAIN u : u[i].email = email
  THEN LET i == CHOOSE i \in DOMAIN u : u[i].email = email
       IN <<[id |-> i, email |-> u[i].email,
             password_hash |-> u[i].password_hash, role |-> u[i].role,
             name |-> u[i].name]>>
  ELSE NoRow

\* SELECT id, email, role, name FROM users WHERE id = ?   (fetchone)
SelectUserById(u, uid) ==
  IF uid \in DOMAIN u
  THEN <<[id |-> uid, email |-> u[uid].email, role |-> u[uid].role,
          name |-> u[uid].name]>>
  ELSE NoRow

\* mutant: the id is one more than the largest id stored (a rowid without
\* AUTOINCREMENT), so the id of a deleted last row is handed out again
lastrowidOfRows(sims, s) == Max({0} \cup {row.id : row \in sims}) + 1

\* cur.lastrowid of the INSERT INTO simulations: ids are handed out in
\* increasing order and never again after a delete
lastrowid(sims, s) == Max({s} \cup {row.id : row \in sims}) + 1

\* INSERT INTO simulations (...) VALUES (?, ?, 'running', 0, 0, now, now+7)
InsertSimulation(sims, id, name, sim_type) ==
  sims \cup {[id |-> id, name |-> name, type |-> sim_type,
              status |-> RUNNING, progress |-> 0, participants |-> 0,
              started_at |-> NOW, estimated_end |-> NOW_PLUS_7]}

\* mutant: a plain INSERT on a table without a key on (user_id,
\* simulation_id)
InsertMembership(us, uid, sim_id) ==
  us \cup {[user_id |-> uid, simulation_id |-> sim_id, role |-> ADMIN]}

\* mutant: the creator is not assigned to the new simulation
InsertNoMembership(us, uid, sim_id) == us

\* INSERT OR IGNORE INTO user_simulations (...) VALUES (?, ?, 'admin')
InsertOrIgnoreMembership(us, uid, sim_id) ==
  IF \E m \in us : m.user_id = uid /\ m.simulation_id = sim_id
  THEN us
  ELSE us \cup {[user_id |-> uid, simulation_id |-> sim_id, role |-> ADMIN]}

\* the column list of the two SELECTs on simulations
SimulationView(s) ==
  [id |-> s.id, name |-> s.name, type |-> s.type,
   status |-> COALESCE(s.status, RUNNING),
   progress |-> COALESCE_INT(s.progress, 0),
   participants |-> COALESCE_INT(s.participants, 0),
   startedAt |-> COALESCE(s.started_at, DASH),
   estimatedEnd |-> COALESCE(s.estimated_end, DASH)]

\* SELECT ... FROM simulations WHERE id = ?   (fetchone)
SelectSimulation(sims, id) ==
  IF \E s \in sims : s.id = id
  THEN <<SimulationView(CHOOSE s \in sims : s.id = id)>>
  ELSE NoRow

\* FROM user_simulations us JOIN simulations s ON s.id = us.simulation_id
\* WHERE us.user_id = ?
JoinSimulations(sims, us, uid) ==
  {p \in us \X sims : p[2].id = p[1].simulation_id /\ p[1].user_id = uid}

\* mutant: ORDER BY s.id (ascending)
RECURSIVE OrderByIdAsc(_)
OrderByIdAsc(rows) ==
  IF rows = {} THEN <<>>
  ELSE LET p == CHOOSE p \in rows : \A q \in rows : q[2].id >= p[2].id
       IN <<p>> \o OrderByIdAsc(rows \ {p})

\* ORDER BY s.id DESC
RECURSIVE OrderByIdDesc(_)
OrderByIdDesc(rows) ==
  IF rows = {} THEN <<>>
  ELSE LET p == CHOOSE p \in rows : \A q \in rows : q[2].id <= p[2].id
       IN <<p>> \o OrderByIdDesc(rows \ {p})

\* the rows list_simulations returns
ListRows(sims, us, uid) ==
  LET rows == OrderByIdDesc(JoinSimulations(sims, us, uid))
  IN [i \in 1..Len(rows) |-> SimulationView(rows[i][2])]

\* mutant: the WHERE clause misses  us.user_id = ?
SelectMembershipOfAnyone(us, u, uid, simulation_id) ==
  LET rows == {m \in us : /\ m.simulation_id = simulation_id
                          /\ m.user_id \in DOMAIN u}
  IN IF rows = {} THEN NoRow
     ELSE LET m == CHOOSE m \in rows : TRUE
          IN <<[role |-> m.role, user_role |-> u[m.user_id].role]>>

\* mutant: the global role is the one the user was given when the account
\* was set up, not the one stored now
SelectMembershipFirstRole(us, u, uid, simulation_id) ==
  LET rows == {m \in us : /\ m.user_id = uid
                          /\ m.simulation_id = simulation_id
                          /\ m.user_id \in DOMAIN u}
  IN IF rows = {} THEN NoRow
     ELSE LET m == CHOOSE m \in rows : TRUE
          IN <<[role |-> m.role,
                user_role |-> IF uid = 1 THEN ADMIN_CAP ELSE None]>>

\* SELECT us.role, u.role AS user_role FROM user_simulations us
\* JOIN users u ON u.id = us.user_id
\* WHERE us.user_id = ? AND us.simulation_id = ?   (fetchone)
SelectMembership(us, u, uid, simulation_id) ==
  LET rows == {m \in us : /\ m.user_id = uid
                          /\ m.simulation_id = simulation_id
                          /\ m.user_id \in DOMAIN u}
  IN IF rows = {} THEN NoRow
     ELSE LET m == CHOOSE m \in rows : TRUE
          IN <<[role |-> m.role, user_role |-> u[m.user_id].role]>>

\* mutant: the role check is missing, every member may delete
AllowedEveryMember(membership) == TRUE

\* mutant: the membership role is compared through _is_admin as well
AllowedAnyCase(membership) ==
  _is_admin(membership.role) \/ _is_admin(membership.user_role)

\* allowed = (membership["role"] == "admin") or _is_admin(membership["user_role"])
Allowed(membership) ==
  membership.role = ADMIN \/ _is_admin(membership.user_role)

\* DELETE FROM simulations WHERE id = ?
DeleteSimulationRow(sims, simulation_id) ==
  {s \in sims : s.id # simulation_id}

\* mutant: the memberships are left to the store (no cleanup statement)
KeepMembershipRows(us, simulation_id) == us

\* DELETE FROM user_simulations WHERE simulation_id = ?
DeleteMembershipRows(us, simulation_id) ==
  {m \in us : m.simulation_id # simulation_id}

\* mutant: request.session.get("user_id", 1), an unbound session runs as
\* the first user
RequireUserIdOrFirst(sess) == IF sess = NoUser THEN 1 ELSE sess

\* main._require_user_id: the bound user id, NoUser for KeyError
_require_user_id(sess) == IF sess = NoUser THEN NoUser ELSE sess

\* ------------------------------------------------------------------ inputs
\* the stored (normalised) e-mail and the password of user i
Email(i) == [j \in 1..i |-> "a"]
Password(i) == [j \in 1..i |-> "p"]
\* the same address as a client may type it
Typed(i) == <<" ">> \o [j \in 1..i |-> "A"] \o <<" ">>

\* the (email, password) bodies of login: a field missing, an unknown
\* address, and every typed address with every user's password
LoginInputs ==
  {<<None, Password(1)>>, <<Typed(1), None>>, <<<<"z">>, Password(1)>>}
    \cup {<<Typed(i), Password(j)>> : i, j \in UserIds}
\* the (name, type) bodies of create: the name missing, empty, blank, and
\* a name between blanks without and with a type
CreateInputs ==
  {<<None, None>>, <<<<>>, None>>, <<<<" ">>, None>>,
   <<<<" ", "Q", " ">>, None>>, <<<<" ", "Q", " ">>, <<"s", " ">>>>}
\* ids a client may ask to delete: the ids in use and one that never exists
SimIdInputs == 1..(MaxId + 1)

\* the global role of user i: the first user is an administrator whose
\* role is stored capitalised, the second has no role, the others 'user'
GlobalRole(i) == IF i = 1 THEN ADMIN_CAP ELSE IF i = 2 THEN None ELSE USER
MembershipRoles == {ADMIN, ADMIN_CAP, MEMBER}

\* a simulations row written outside the handlers, with NULL columns
Provisioned(id) ==
  [id |-> id, name |-> <<"P">>, type |-> PHISHING, status |-> None,
   progress |-> NULL_INT, participants |-> 3,
   started_at |-> None, estimated_end |-> None]

\* every membership of a table belongs to a stored simulation
NoOrphans(sims, us) ==
  \A m \in us : \E s \in sims : s.id = m.simulation_id
\* every stored simulation has a member whose role is 'admin'
HasAdmin(sims, us) ==
  \A s \in sims :
    \E m \in us : m.simulation_id = s.id /\ m.role = ADMIN
\* at most one membership per (user, simulation)
UniqueMembership(us) ==
  \A m1, m2 \in us :
    (m1.user_id = m2.user_id /\ m1.simulation_id = m2.simulation_id)
      => m1 = m2

\* ------------------------------------------------------------------- Init
\* The users table and at most one simulation with its memberships are
\* provisioned before the server starts (seed_admin.py, migrations); no
\* request is in flight and no session is bound.
Init ==
  /\ users = [i \in UserIds |->
                [email |-> Email(i), name |-> None,
                 password_hash |-> hash_password(Password(i)),
                 role |-> GlobalRole(i)]]
  /\ \E n \in {0, 1} :
       /\ simulations = {Provisioned(id) : id \in 1..n}
       /\ seq = n
       /\ \E us \in SUBSET [user_id : UserIds, simulation_id : 1..n,
                            role : MembershipRoles] :
            /\ UniqueMembership(us)
            /\ HasAdmin(simulations, us)
            /\ user_simulations = us
  /\ lock = NoLock
  /\ tx = NoTx
  /\ session = [c \in Clients |-> NoUser]
  /\ pc = [r \in Req |-> "idle"]
  /\ req = [r \in Req |-> NoReq]
  /\ last = [req |-> NoReq, resp |-> NoResp]

\* a request is served in the lowest free slot
Free(r) == pc[r] = "idle" /\ \A q \in Req : q < r => pc[q] # "idle"

\* the handler of slot r returns: the response is sent, the slot is free
Done(r, request, response) ==
  /\ last' = [req |-> request, resp |-> response]
  /\ pc' = [pc EXCEPT ![r] = "idle"]
  /\ req' = [req EXCEPT ![r] = NoReq]

\* ------------------------------------------------------------------- AUTH
\* mutant: the e-mail is not lowercased
NormalizeEmailNoLower(email) == Strip(Or(email, <<>>))

\* email = (data.get("email") or "").strip().lower()
NormalizeEmail(email) == Lower(Strip(Or(email, <<>>)))

\* the user row login accepts for (email, password): <<row>> or NoRow
Authenticate(u, email, password) ==
  LET user == SelectUserByEmail(u, NormalizeEmail(email))
  IN IF user = NoRow
        \/ ~verify_password(Or(password, <<>>), user[1].password_hash)
     THEN NoRow
     ELSE user

PublicUser(user) ==
  [id |-> user.id, email |-> user.email, role |-> user.role,
   name |-> user.name]

\* mutant: a login that fails clears the session
loginClearing(r, c, email, password) ==
  /\ Free(r)
  /\ LET request == [NoReq EXCEPT !.op = "login", !.client = c,
                                  !.email = email, !.password = password]
         user == Authenticate(users, email, password)
     IN IF NormalizeEmail(email) = <<>> \/ Or(password, <<>>) = <<>>
        THEN Done(r, request, LoginRequired) /\ UNCHANGED session
        ELSE IF user = NoRow
        THEN /\ session' = [session EXCEPT ![c] = NoUser]
             /\ Done(r, request, InvalidCredentials)
        ELSE /\ session' = [session EXCEPT ![c] = user[1].id]
             /\ Done(r, request,
                     Response(200, "", TRUE, <<PublicUser(user[1])>>))
  /\ UNCHANGED <<store, lock, tx>>

\* mutant: an unknown address is told apart from a wrong password
loginRevealing(r, c, email, password) ==
  /\ Free(r)
  /\ LET request == [NoReq EXCEPT !.op = "login", !.client = c,
                                  !.email = email, !.password = password]
         user == Authenticate(users, email, password)
     IN IF NormalizeEmail(email) = <<>> \/ Or(password, <<>>) = <<>>
        THEN Done(r, request, LoginRequired) /\ UNCHANGED session
        ELSE IF SelectUserByEmail(users, NormalizeEmail(email)) = NoRow
        THEN Done(r, request, NotFound) /\ UNCHANGED session
        ELSE IF user = NoRow
        THEN Done(r, request, InvalidCredentials) /\ UNCHANGED session
        ELSE /\ session' = [session EXCEPT ![c] = user[1].id]
             /\ Done(r, request,
                     Response(200, "", TRUE, <<PublicUser(user[1])>>))
  /\ UNCHANGED <<store, lock, tx>>

\* POST /api/auth/login
login(r, c, email, password) ==
  /\ Free(r)
  /\ LET request == [NoReq EXCEPT !.op = "login", !.client = c,
                                  !.email = email, !.password = password]
         user == Authenticate(users, email, password)
     IN IF NormalizeEmail(email) = <<>> \/ Or(password, <<>>) = <<>>
        THEN Done(r, request, LoginRequired) /\ UNCHANGED session
        ELSE IF user = NoRow
        THEN Done(r, request, InvalidCredentials) /\ UNCHANGED session
        ELSE /\ session' = [session EXCEPT ![c] = user[1].id]
             /\ Done(r, request,
                     Response(200, "", TRUE, <<PublicUser(user[1])>>))
  /\ UNCHANGED <<store, lock, tx>>

\* mutant: del request.session["user_id"], which raises on an empty session
logoutBound(r, c) ==
  /\ Free(r)
  /\ session' = [session EXCEPT ![c] = NoUser]
  /\ Done(r, [NoReq EXCEPT !.op = "logout", !.client = c],
          IF session[c] = NoUser THEN InternalError ELSE Ok)
  /\ UNCHANGED <<store, lock, tx>>

\* POST /api/auth/logout
logout(r, c) ==
  /\ Free(r)
  /\ session' = [session EXCEPT ![c] = NoUser]
  /\ Done(r, [NoReq EXCEPT !.op = "logout", !.client = c], Ok)
  /\ UNCHANGED <<store, lock, tx>>

\* GET /api/auth/me
me(r, c) ==
  /\ Free(r)
  /\ LET uid == _require_user_id(session[c])
         request == [NoReq EXCEPT !.op = "me", !.client = c, !.uid = uid]
         user == SelectUserById(users, uid)
     IN IF uid = NoUser
        THEN Done(r, request, Unauthenticated) /\ UNCHANGED session
        ELSE IF user = NoRow
        THEN /\ session' = [session EXCEPT ![c] = NoUser]
             /\ Done(r, request, Unauthenticated)
        ELSE /\ Done(r, request, Response(200, "", FALSE, user))
             /\ UNCHANGED session
  /\ UNCHANGED <<store, lock, tx>>

\* ------------------------------------------------------------ SIMULATIONS
\* GET /api/simulations
list_simulations(r, c) ==
  /\ Free(r)
  /\ LET uid == _require_user_id(session[c])
         request == [NoReq EXCEPT !.op = "list", !.client = c, !.uid = uid]
     IN IF uid = NoUser
        THEN Done(r, request, Unauthenticated)
        ELSE Done(r, request,
                  Response(200, "", FALSE,
                           ListRows(simulations, user_simulations, uid)))
  /\ UNCHANGED <<store, lock, tx, session>>

\* mutant: the name is not stripped
NormalizeNameNoStrip(name) == Or(name, <<>>)

\* name = (data.get("name") or "").strip()
NormalizeName(name) == Strip(Or(name, <<>>))
\* sim_type = (data.get("type") or "phishing").strip()
NormalizeType(sim_type) == Strip(Or(sim_type, PHISHING))

\* ids handed out so far, the open transaction included
Handed == IF lock = NoLock THEN seq ELSE Max({seq, tx.seq})
\* creates that passed validation and have not inserted yet
Waiting == {q \in Req : pc[q] = "insert_sim"}

\* POST /api/simulations: session check and validation of the body
create_simulation(r, c, name, sim_type) ==
  /\ Free(r)
  /\ LET uid == _require_user_id(session[c])
         request == [NoReq EXCEPT !.op = "create", !.client = c,
                                  !.uid = uid, !.name = name,
                                  !.type = sim_type]
     IN IF uid = NoUser
        THEN Done(r, request, Unauthenticated)
        ELSE IF NormalizeName(name) = <<>>
        THEN Done(r, request, NameRequired)
        ELSE /\ Handed + Cardinality(Waiting) < MaxId
             /\ pc' = [pc EXCEPT ![r] = "insert_sim"]
             /\ req' = [req EXCEPT ![r] =
                          [request EXCEPT !.name = NormalizeName(name),
                                          !.type = NormalizeType(sim_type)]]
             /\ UNCHANGED last
  /\ UNCHANGED <<store, lock, tx, session>>

\* mutant: the connection is in autocommit mode (isolation_level=None),
\* the INSERT is visible to every connection at once
CreateInsertSimulationAutocommit(r) ==
  /\ pc[r] = "insert_sim"
  /\ lock = NoLock
  /\ LET sim_id == lastrowid(simulations, seq)
         rows == InsertSimulation(simulations, sim_id,
                                  req[r].name, req[r].type)
     IN /\ tx' = [simulations |-> rows,
                  user_simulations |-> user_simulations,
                  seq |-> sim_id]
        /\ simulations' = rows
        /\ seq' = sim_id
        /\ req' = [req EXCEPT ![r].sim_id = sim_id]
  /\ lock' = r
  /\ pc' = [pc EXCEPT ![r] = "insert_us"]
  /\ UNCHANGED <<users, user_simulations, session, last>>

\* conn.execute("INSERT INTO simulations ..."); sim_id = cur.lastrowid
\* (the statement opens the transaction and takes the write lock)
CreateInsertSimulation(r) ==
  /\ pc[r] = "insert_sim"
  /\ lock = NoLock
  /\ LET sim_id == lastrowid(simulations, seq)
     IN /\ tx' = [simulations |->
                    InsertSimulation(simulations, sim_id,
                                     req[r].name, req[r].type),
                  user_simulations |-> user_simulations,
                  seq |-> sim_id]
        /\ req' = [req EXCEPT ![r].sim_id = sim_id]
  /\ lock' = r
  /\ pc' = [pc EXCEPT ![r] = "insert_us"]
  /\ UNCHANGED <<store, session, last>>

\* conn.execute("INSERT OR IGNORE INTO user_simulations ...")
\* When the user row of uid is gone, a foreign key on user_id (PRAGMA
\* foreign_keys = ON) makes the statement raise, which OR IGNORE does not
\* cover: the transaction is dropped with the connection and the framework
\* answers 500.  Whether the schema declares that key is not known, so
\* both outcomes are possible.
CreateInsertMembership(r) ==
  /\ pc[r] = "insert_us"
  /\ lock = r
  /\ \/ /\ tx' = [tx EXCEPT !.user_simulations =
                    InsertOrIgnoreMembership(@, req[r].uid, req[r].sim_id)]
        /\ pc' = [pc EXCEPT ![r] = "commit_create"]
        /\ UNCHANGED <<lock, req, last>>
     \/ /\ req[r].uid \notin DOMAIN users
        /\ tx' = NoTx
        /\ lock' = NoLock
        /\ Done(r, req[r], InternalError)
  /\ UNCHANGED <<store, session>>

\* conn.commit(): the transaction's tables become the committed ones
Commit ==
  /\ simulations' = tx.simulations
  /\ user_simulations' = tx.user_simulations
  /\ seq' = tx.seq
  /\ tx' = NoTx
  /\ lock' = NoLock
  /\ UNCHANGED users

CreateCommit(r) ==
  /\ pc[r] = "commit_create"
  /\ lock = r
  /\ Commit
  /\ pc' = [pc EXCEPT ![r] = "select_created"]
  /\ UNCHANGED <<session, req, last>>

\* created = conn.execute("SELECT ... WHERE id = ?").fetchone()
\* return {"ok": True, "simulation": dict(created)}
CreateSelect(r) ==
  /\ pc[r] = "select_created"
  /\ LET created == SelectSimulation(simulations, req[r].sim_id)
     IN Done(r, req[r], IF created = NoRow THEN InternalError
                        ELSE Response(200, "", TRUE, created))
  /\ UNCHANGED <<store, lock, tx, session>>

\* DELETE /api/simulations/{simulation_id}: session check, membership
\* SELECT and the decision
delete_simulation(r, c, simulation_id) ==
  /\ Free(r)
  /\ LET uid == _require_user_id(session[c])
         membership == IF uid = NoUser THEN NoRow
                       ELSE SelectMembership(user_simulations, users, uid,
                                             simulation_id)
         request == [NoReq EXCEPT !.op = "delete", !.client = c,
                                  !.uid = uid,
                                  !.simulation_id = simulation_id,
                                  !.membership = membership]
     IN IF uid = NoUser
        THEN Done(r, request, Unauthenticated)
        ELSE IF membership = NoRow
        THEN Done(r, request, NotFound)
        ELSE IF ~Allowed(membership[1])
        THEN Done(r, request, Forbidden)
        ELSE /\ pc' = [pc EXCEPT ![r] = "delete_sim"]
             /\ req' = [req EXCEPT ![r] = request]
             /\ UNCHANGED last
  /\ UNCHANGED <<store, lock, tx, session>>

\* mutant: the connection is in autocommit mode (isolation_level=None),
\* the DELETE is visible to every connection at once
DeleteSimulationAutocommit(r) ==
  /\ pc[r] = "delete_sim"
  /\ lock = NoLock
  /\ LET rows == DeleteSimulationRow(simulations, req[r].simulation_id)
     IN /\ tx' = [simulations |-> rows,
                  user_simulations |-> user_simulations,
                  seq |-> seq]
        /\ simulations' = rows
  /\ lock' = r
  /\ pc' = [pc EXCEPT ![r] = "delete_us"]
  /\ UNCHANGED <<users, user_simulations, seq, session, req, last>>

\* conn.execute("DELETE FROM simulations WHERE id = ?")
\* (the statement opens the transaction and takes the write lock)
DeleteSimulation(r) ==
  /\ pc[r] = "delete_sim"
  /\ lock = NoLock
  /\ tx' = [simulations |->
              DeleteSimulationRow(simulations, req[r].simulation_id),
            user_simulations |-> user_simulations,
            seq |-> seq]
  /\ lock' = r
  /\ pc' = [pc EXCEPT ![r] = "delete_us"]
  /\ UNCHANGED <<store, session, req, last>>

\* conn.execute("DELETE FROM user_simulations WHERE simulation_id = ?")
DeleteMemberships(r) ==
  /\ pc[r] = "delete_us"
  /\ lock = r
  /\ tx' = [tx EXCEPT !.user_simulations =
              DeleteMembershipRows(@, req[r].simulation_id)]
  /\ pc' = [pc EXCEPT ![r] = "commit_delete"]
  /\ UNCHANGED <<store, lock, session, req, last>>

\* conn.commit(); return {"ok": True}
DeleteCommit(r) ==
  /\ pc[r] = "commit_delete"
  /\ lock = r
  /\ Commit
  /\ Done(r, req[r], Ok)
  /\ UNCHANGED session

Next ==
  \/ \E r \in Req, c \in Clients, body \in LoginInputs :
        login(r, c, body[1], body[2])
  \/ \E r \in Req, c \in Clients : logout(r, c)
  \/ \E r \in Req, c \in Clients : me(r, c)
  \/ \E r \in Req, c \in Clients : list_simulations(r, c)
  \/ \E r \in Req, c \in Clients, body \in CreateInputs :
        create_simulation(r, c, body[1], body[2])
  \/ \E r \in Req : CreateInsertSimulation(r)
  \/ \E r \in Req : CreateInsertMembership(r)
  \/ \E r \in Req : CreateCommit(r)
  \/ \E r \in Req : CreateSelect(r)
  \/ \E r \in Req, c \in Clients, simulation_id \in SimIdInputs :
        delete_simulation(r, c, simulation_id)
  \/ \E r \in Req : DeleteSimulation(r)
  \/ \E r \in Req : DeleteMemberships(r)
  \/ \E r \in Req : DeleteCommit(r)

Spec == Init /\ [][Next]_vars

TypeOK ==
  /\ lock \in {NoLock} \cup Req
  /\ \A c \in Clients : session[c] \in {NoUser} \cup UserIds
  /\ \A r \in Req : pc[r] \in {"idle", "insert_sim", "insert_us",
                               "commit_create", "select_created",
                               "delete_sim", "delete_us", "commit_delete"}
  /\ seq \in 0..MaxId

\* ------------------------------------------------------------ environment
\* The store is also written from outside the handlers.  An account is
\* removed: the row of users goes, and the memberships of the user either
\* stay (no foreign key) or go with it (ON DELETE CASCADE).  The writer
\* waits for the write lock like any other.
RemoveUser(u) ==
  /\ u \in DOMAIN users
  /\ Cardinality(UserIds \ DOMAIN users) < MaxRemoved
  /\ lock = NoLock
  /\ users' = [i \in DOMAIN users \ {u} |-> users[i]]
  /\ \/ user_simulations' = user_simulations
     \/ user_simulations' = {m \in user_simulations : m.user_id # u}
  /\ UNCHANGED <<simulations, seq, lock, tx, session, pc, req, last>>

NextStale == Next \/ \E u \in UserIds : RemoveUser(u)

\* the handlers, and accounts that are removed under them
SpecStale == Init /\ [][NextStale]_vars

\* The global role of a user is changed (UPDATE users SET role = ?).
SetGlobalRole(u, role) ==
  /\ u \in DOMAIN users
  /\ users[u].role # role
  /\ lock = NoLock
  /\ users' = [users EXCEPT ![u].role = role]
  /\ UNCHANGED <<simulations, user_simulations, seq, lock, tx, session,
                 pc, req, last>>

\* The role of a membership is changed (UPDATE user_simulations SET role = ?).
SetMembershipRole(m, role) ==
  /\ m \in user_simulations
  /\ m.role # role
  /\ lock = NoLock
  /\ user_simulations' =
       (user_simulations \ {m}) \cup {[m EXCEPT !.role = role]}
  /\ UNCHANGED <<users, simulations, seq, lock, tx, session, pc, req, last>>

\* the changes of a global role: the administrator is demoted, the user
\* without a role is made an administrator
GlobalRoleChanges == {<<1, USER>>, <<2, ADMIN>>}

NextRoles ==
  \/ Next
  \/ \E ch \in GlobalRoleChanges : SetGlobalRole(ch[1], ch[2])
  \/ \E m \in user_simulations : SetMembershipRole(m, MEMBER)

\* one simulation: the administrator is a plain member of it, the user
\* without a global role is its 'admin'
InitRoles ==
  /\ Init
  /\ user_simulations =
       {[user_id |-> 1, simulation_id |-> 1, role |-> MEMBER],
        [user_id |-> 2, simulation_id |-> 1, role |-> ADMIN]}

\* the handlers, and roles that are changed under them
SpecRoles == InitRoles /\ [][NextRoles]_vars

\* A membership on a stored simulation is granted with the statement of
\* create_simulation (INSERT OR IGNORE INTO user_simulations ... 'admin').
GrantMembership(u, id) ==
  /\ u \in DOMAIN users
  /\ \E sim \in simulations : sim.id = id
  /\ lock = NoLock
  /\ user_simulations' = InsertOrIgnoreMembership(user_simulations, u, id)
  /\ UNCHANGED <<users, simulations, seq, lock, tx, session, pc, req, last>>

NextGrant ==
  \/ Next
  \/ \E u \in UserIds, id \in 1..MaxId : GrantMembership(u, id)

\* the handlers, and memberships that are granted under them
SpecGrant == Init /\ [][NextGrant]_vars

\* ----------------------------------------------------------------- claims
\* the user id a request of client c runs under
Caller(c) == _require_user_id(session[c])
\* the committed membership rows of user uid on simulation id
MembershipsOf(uid, id) ==
  {m \in user_simulations : m.user_id = uid /\ m.simulation_id = id}
\* the simulation id is stored
Exists(id) == \E s \in simulations : s.id = id
\* a role that reads 'admin' whatever its case
AdminAnyCase(role) == role # None /\ Lower(role) = ADMIN
\* the handler of slot r goes on to its DELETE statements
Proceeds(r) == pc'[r] = "delete_sim" /\ last' = last
\* the handler of slot r answers response and writes nothing
Answers(r, response) ==
  /\ last'.resp = response
  /\ pc'[r] = "idle"
  /\ store' = store
  /\ lock' = lock
  /\ tx' = tx

\* C1 (as stated): for a caller with a membership row, delete is allowed
\* iff the membership role or the global role reads 'admin' in any case,
\* and is answered Forbidden otherwise.
C1_AnyCase ==
  [][\A r \in Req, c \in Clients, id \in SimIdInputs :
       (delete_simulation(r, c, id) /\ Caller(c) # NoUser) =>
         \A m \in MembershipsOf(Caller(c), id) :
           IF AdminAnyCase(m.role) \/ AdminAnyCase(users[Caller(c)].role)
           THEN Proceeds(r)
           ELSE Answers(r, Forbidden)]_vars

\* C1 (amended): for a caller with a membership row, delete is allowed iff
\* the membership role is exactly 'admin' or the global role reads 'admin'
\* in any case, and is answered Forbidden (403) otherwise.
C1_Allowed ==
  [][\A r \in Req, c \in Clients, id \in SimIdInputs :
       (delete_simulation(r, c, id) /\ Caller(c) # NoUser) =>
         \A m \in MembershipsOf(Caller(c), id) :
           IF m.role = ADMIN \/ AdminAnyCase(users[Caller(c)].role)
           THEN Proceeds(r)
           ELSE Answers(r, Forbidden)]_vars

\* a delete is going ahead for a caller whose membership role is 'member'
\* and whose global role is stored as 'Admin'
C1_Witness ==
  \E r \in Req :
    /\ pc[r] = "delete_sim"
    /\ req[r].membership = <<[role |-> MEMBER, user_role |-> ADMIN_CAP]>>

\* the lists of all users, as list_simulations would return them now
Lists == [u \in UserIds |-> ListRows(simulations, user_simulations, u)]
\* the caller of client c is a global administrator
GlobalAdmin(c) == Caller(c) # NoUser /\ AdminAnyCase(users[Caller(c)].role)

\* C2 (as stated): a global administrator with no membership row on an
\* existing simulation Y still deletes Y.
C2_NoMembership ==
  [][\A r \in Req, c \in Clients, id \in SimIdInputs :
       (/\ delete_simulation(r, c, id)
        /\ GlobalAdmin(c)
        /\ Exists(id)
        /\ MembershipsOf(Caller(c), id) = {}) => Proceeds(r)]_vars

\* C2 (amended): a global administrator with no membership row on Y is
\* answered NotFound and nothing is deleted; one with a membership row of
\* any role on Y deletes Y, and when that delete commits neither the row of
\* Y nor any membership row of Y remains.
C2_GlobalAdmin ==
  [][/\ \A r \in Req, c \in Clients, id \in SimIdInputs :
          (delete_simulation(r, c, id) /\ GlobalAdmin(c)) =>
            IF MembershipsOf(Caller(c), id) = {}
            THEN Answers(r, NotFound)
            ELSE Proceeds(r)
     /\ \A r \in Req :
          (DeleteCommit(r) /\ AdminAnyCase(req[r].membership[1].user_role))
            => /\ last'.resp = Ok
               /\ \A s \in simulations' : s.id # req[r].simulation_id
               /\ \A m \in user_simulations' :
                    m.simulation_id # req[r].simulation_id]_vars

\* a global administrator whose membership role was 'member' has deleted
\* a simulation that had another member
C2_Witness ==
  /\ last.req.op = "delete"
  /\ last.resp = Ok
  /\ last.req.membership = <<[role |-> MEMBER, user_role |-> ADMIN_CAP]>>
  /\ ~Exists(last.req.simulation_id)
  /\ \A m \in user_simulations : m.simulation_id # last.req.simulation_id

\* C3: a delete by an authenticated user with no membership row on the
\* simulation is answered 404 "Not found" and writes nothing, whether the
\* simulation exists or the id was never stored.
C3_NotFound ==
  [][\A r \in Req, c \in Clients, id \in SimIdInputs :
       (/\ delete_simulation(r, c, id)
        /\ Caller(c) # NoUser
        /\ MembershipsOf(Caller(c), id) = {}) =>
          /\ Answers(r, Error(404, "Not found"))
          /\ session' = session]_vars

\* a non-member has just been answered NotFound for a simulation that
\* exists and has members
C3_Witness ==
  /\ last.req.op = "delete"
  /\ last.req.uid # NoUser
  /\ last.resp = NotFound
  /\ Exists(last.req.simulation_id)
  /\ MembershipsOf(last.req.uid, last.req.simulation_id) = {}
  /\ \E m \in user_simulations : m.simulation_id = last.req.simulation_id

\* C4: a delete by a member whose membership role and global role are
\* both non-admin is answered Forbidden and deletes nothing: the store is
\* unchanged and the simulation stays in the list of every member.
C4_Forbidden ==
  [][\A r \in Req, c \in Clients, id \in SimIdInputs :
       (/\ delete_simulation(r, c, id)
        /\ Caller(c) # NoUser
        /\ ~AdminAnyCase(users[Caller(c)].role)
        /\ \E m \in MembershipsOf(Caller(c), id) : ~AdminAnyCase(m.role)) =>
          /\ Answers(r, Forbidden)
          /\ Lists' = Lists
          /\ \A m \in user_simulations :
               m.simulation_id = id =>
                 \E i \in 1..Len(Lists'[m.user_id]) :
                   Lists'[m.user_id][i].id = id]_vars

\* a member with role 'member' and no global role has just been answered
\* Forbidden, and the simulation is still in another member's list
C4_Witness ==
  /\ last.req.op = "delete"
  /\ last.resp = Forbidden
  /\ last.req.membership = <<[role |-> MEMBER, user_role |-> None]>>
  /\ \E u \in UserIds \ {last.req.uid} :
       \E i \in 1..Len(Lists[u]) : Lists[u][i].id = last.req.simulation_id

\* C5: the tables every request reads (the committed ones) never show a
\* partial delete: no membership row references a simulation that is not
\* stored, and no stored simulation is left without its membership rows.
C5_AtomicDelete ==
  /\ NoOrphans(simulations, user_simulations)
  /\ \A s \in simulations :
       \E m \in user_simulations : m.simulation_id = s.id

\* a delete is between its two DELETE statements while another request is
\* in flight: the row is gone inside the transaction only
C5_Witness ==
  \E r \in Req :
    /\ lock = r
    /\ pc[r] = "delete_us"
    /\ \A s \in tx.simulations : s.id # req[r].simulation_id
    /\ \E m \in tx.user_simulations :
         m.simulation_id = req[r].simulation_id
    /\ Exists(req[r].simulation_id)
    /\ \E q \in Req \ {r} : pc[q] # "idle"

\* C6: in the tables every request reads, every stored simulation has a
\* membership row whose role is 'admin'.
C6_AdminMember ==
  \A s \in simulations :
    \E m \in user_simulations :
      m.simulation_id = s.id /\ m.role = ADMIN

\* a create is between its two INSERT statements while another request is
\* in flight: the new row has no membership yet and is not visible
C6_Witness ==
  \E r \in Req :
    /\ lock = r
    /\ pc[r] = "insert_us"
    /\ \E s \in tx.simulations : s.id = req[r].sim_id
    /\ \A m \in tx.user_simulations : m.simulation_id # req[r].sim_id
    /\ ~Exists(req[r].sim_id)
    /\ \E q \in Req \ {r} : pc[q] # "idle"

\* a name that is missing, empty or made of blanks only
Blank(name) == name = None \/ \A i \in 1..Len(name) : name[i] = " "

\* C7: a create by an authenticated user whose name is missing, empty or
\* blank is answered 400 and persists nothing: the tables, and with them
\* the caller's list, are the same before and after.
C7_EmptyName ==
  [][\A r \in Req, c \in Clients, body \in CreateInputs :
       (/\ Blank(body[1])
        /\ Caller(c) # NoUser
        /\ create_simulation(r, c, body[1], body[2])) =>
          /\ Answers(r, Error(400, "Simulation name is required"))
          /\ ListRows(simulations', user_simulations', Caller(c))
               = ListRows(simulations, user_simulations, Caller(c))
          /\ session' = session]_vars

\* a create with a name of one blank has just been answered 400 while the
\* caller has a simulation in their list
C7_Witness ==
  /\ last.req.op = "create"
  /\ last.req.name = <<" ">>
  /\ last.resp = NameRequired
  /\ last.req.uid \in UserIds
  /\ Lists[last.req.uid] # <<>>

\* the simulation views of a list result
Listed(rows) == {rows[i] : i \in 1..Len(rows)}

\* C8: a create that succeeds takes an id no stored simulation has, its
\* commit changes no other user's list, and its response carries the new
\* simulation with status 'running', progress 0 and participants 0, which
\* is in the creator's list at that moment.
C8_Create ==
  [][\A r \in Req :
       /\ CreateInsertSimulation(r) =>
            /\ ~Exists(req'[r].sim_id)
            /\ store' = store
       /\ CreateCommit(r) =>
            /\ ~Exists(req[r].sim_id)
            /\ \A u \in UserIds \ {req[r].uid} : Lists'[u] = Lists[u]
       /\ (CreateSelect(r) /\ last'.resp.status = 200) =>
            /\ last'.resp.ok
            /\ Len(last'.resp.data) = 1
            /\ LET sim == last'.resp.data[1]
               IN /\ sim.id = req[r].sim_id
                  /\ sim.name = req[r].name
                  /\ sim.status = RUNNING
                  /\ sim.progress = 0
                  /\ sim.participants = 0
                  /\ sim \in Listed(Lists'[req[r].uid])]_vars

\* a create has just succeeded and is in the creator's list, while another
\* user has a list of their own
C8_Witness ==
  /\ last.req.op = "create"
  /\ last.resp.status = 200
  /\ last.resp.data[1] \in Listed(Lists[last.req.uid])
  /\ \E u \in UserIds \ {last.req.uid} : Lists[u] # <<>>

\* C9: list answers 200 with exactly the simulations the caller has a
\* membership row on, each once, in strictly decreasing order of id, and
\* changes nothing.
C9_List ==
  [][\A r \in Req, c \in Clients :
       (list_simulations(r, c) /\ Caller(c) # NoUser) =>
          LET rows == last'.resp.data
              mine == {m.simulation_id :
                         m \in {m \in user_simulations :
                                  m.user_id = Caller(c)}}
          IN /\ last'.resp.status = 200
             /\ {rows[i].id : i \in 1..Len(rows)} = mine
             /\ \A i, j \in 1..Len(rows) : i < j => rows[i].id > rows[j].id
             /\ \A i \in 1..Len(rows) :
                  \E s \in simulations :
                    s.id = rows[i].id /\ s.name = rows[i].name
             /\ store' = store
             /\ lock' = lock
             /\ tx' = tx
             /\ session' = session]_vars

\* a list of two simulations has just been returned
C9_Witness ==
  /\ last.req.op = "list"
  /\ last.resp.status = 200
  /\ Len(last.resp.data) = 2
  /\ last.resp.data[1].id > last.resp.data[2].id

\* C10: a login with the e-mail of user i, typed in capitals between
\* blanks, and the password of user i answers 200 and binds the session to
\* i whatever was bound before, so that _require_user_id yields i; and the
\* current-user request of a session bound to a stored user returns that
\* user.
C10_Login ==
  [][/\ \A r \in Req, c \in Clients, i \in UserIds :
          login(r, c, Typed(i), Password(i)) =>
            /\ last'.resp.status = 200
            /\ last'.resp.data[1].id = i
            /\ session'[c] = i
            /\ _require_user_id(session'[c]) = i
            /\ store' = store
     /\ \A r \in Req, c \in Clients :
          (me(r, c) /\ session[c] \in UserIds) =>
            /\ last'.resp.status = 200
            /\ last'.resp.data[1].id = session[c]
            /\ session' = session]_vars

\* a login as user 2 has just succeeded on a session that was bound to
\* user 1, under whom a request is still in flight
C10_Witness ==
  /\ last.req.op = "login"
  /\ last.req.email = Typed(2)
  /\ last.resp.status = 200
  /\ session[last.req.client] = 2
  /\ \E r \in Req :
       pc[r] # "idle" /\ req[r].client = last.req.client /\ req[r].uid = 1

\* the e-mail and the password of a login request are both given
Given(request) ==
  NormalizeEmail(request.email) # <<>> /\ Or(request.password, <<>>) # <<>>
\* the exchange that completes in this step is a login that fails
LoginFails ==
  /\ last' # last
  /\ last'.req.op = "login"
  /\ Authenticate(users, last'.req.email, last'.req.password) = NoRow

\* C11: a login whose e-mail and password are given and that does not
\* authenticate is answered 401 "Invalid email or password" and leaves the
\* session and the store alone, whether the address is unknown or the
\* address is known and the password wrong: the two answers are the same
\* on every attempt.
C11_SameFailure ==
  [][(LoginFails /\ Given(last'.req)) =>
       /\ last'.resp = Error(401, "Invalid email or password")
       /\ session' = session
       /\ store' = store]_vars

\* a login with the address of user 1 and the password of user 2 has just
\* been refused on a session that is bound to a user
C11_Witness ==
  /\ last.req.op = "login"
  /\ last.req.email = Typed(1)
  /\ last.req.password = Password(2)
  /\ last.resp = InvalidCredentials
  /\ session[last.req.client] \in UserIds

\* the session of client c is bound to a user id that has no row in users
Stale(c) == session[c] # NoUser /\ session[c] \notin DOMAIN users
\* client c starts one of the protected operations in slot r
Protected(r, c) ==
  \/ me(r, c)
  \/ list_simulations(r, c)
  \/ \E body \in CreateInputs : create_simulation(r, c, body[1], body[2])
  \/ \E id \in SimIdInputs : delete_simulation(r, c, id)

\* C12 (as stated): every protected operation on a session bound to a user
\* id that is no longer in users is answered Unauthenticated (401) and
\* clears the session.
C12_StaleUnauthenticated ==
  [][\A r \in Req, c \in Clients :
       (Stale(c) /\ Protected(r, c)) =>
         /\ last'.resp = Unauthenticated
         /\ pc'[r] = "idle"
         /\ session'[c] = NoUser]_vars

\* the request of slot r passes the decision of delete in this step
Decided(r) == pc[r] = "idle" /\ pc'[r] = "delete_sim"
\* a delete is refused in this step
Refused ==
  /\ last' # last
  /\ last'.req.op = "delete"
  /\ last'.resp.status \in {403, 404}
\* what the rows stored now make of a delete of id by uid
DecisionNow(uid, id) ==
  IF uid \notin DOMAIN users \/ MembershipsOf(uid, id) = {} THEN "NotFound"
  ELSE IF \E m \in MembershipsOf(uid, id) :
            m.role = ADMIN \/ AdminAnyCase(users[uid].role)
       THEN "allow"
       ELSE "Forbidden"

\* C13: the session holds a user id and nothing else, and every decision
\* of delete is the one the rows of users and user_simulations give at the
\* time of the request, whatever the roles were when the session was
\* bound: the roles the request goes on with are the stored ones.
C13_RolesAtRequest ==
  [][/\ \A c \in Clients : session'[c] \in {NoUser} \cup UserIds
     /\ \A r \in Req :
          Decided(r) =>
            LET uid == req'[r].uid
                id == req'[r].simulation_id
            IN /\ uid = session[req'[r].client]
               /\ DecisionNow(uid, id) = "allow"
               /\ \E m \in MembershipsOf(uid, id) :
                    req'[r].membership =
                      <<[role |-> m.role, user_role |-> users[uid].role]>>
     /\ Refused =>
          /\ last'.req.uid = session[last'.req.client]
          /\ DecisionNow(last'.req.uid, last'.req.simulation_id)
               = (IF last'.resp.status = 403 THEN "Forbidden"
                  ELSE "NotFound")]_vars

\* user 2 logged in while the account had no global role and its
\* membership role was 'admin'; both roles were changed since, and a delete
\* of that user is going ahead on the global role 'admin' stored now
C13_Witness ==
  /\ last.req.op = "login"
  /\ last.resp.status = 200
  /\ last.resp.data[1].id = 2
  /\ last.resp.data[1].role = None
  /\ \E r \in Req :
       /\ pc[r] = "delete_sim"
       /\ req[r].uid = 2
       /\ req[r].membership = <<[role |-> MEMBER, user_role |-> ADMIN]>>

\* C14: logout answers 200 {"ok": true} in every state, on a bound and on
\* an unbound session alike, leaves the session unbound and writes nothing
\* to the store; a session that is unbound is bound again by a login that
\* succeeds and by nothing else, and until then every protected operation
\* on it is answered Unauthenticated (401).
C14_Logout ==
  [][\A c \in Clients :
       /\ \A r \in Req :
            logout(r, c) =>
              /\ last'.resp = Response(200, "", TRUE, <<>>)
              /\ session'[c] = NoUser
              /\ \A d \in Clients \ {c} : session'[d] = session[d]
              /\ store' = store
              /\ lock' = lock
              /\ tx' = tx
       /\ (session[c] = NoUser /\ session'[c] # NoUser) =>
            /\ last'.req.op = "login"
            /\ last'.req.client = c
            /\ last'.resp.status = 200
       /\ \A r \in Req :
            (session[c] = NoUser /\ Protected(r, c)) =>
              /\ last'.resp = Unauthenticated
              /\ pc'[r] = "idle"]_vars

\* a logout has been answered ok and the session is unbound, while a
\* request the same client sent as user 1 is still in flight
C14_Witness ==
  /\ last.req.op = "logout"
  /\ last.resp = Ok
  /\ session[last.req.client] = NoUser
  /\ \E r \in Req :
       /\ pc[r] # "idle"
       /\ req[r].client = last.req.client
       /\ req[r].uid = 1

C16_OneDeletes ==
  [][/\ \A r \in Req :
          DeleteCommit(r) =>
            /\ Exists(req[r].simulation_id)
            /\ last'.resp = Ok
     /\ (last' # last /\ last'.req.op = "delete") =>
          last'.resp.status # 500]_vars

\* the ids the state knows of: stored, held by a request, or returned last
KnownIds ==
  {s.id : s \in simulations}
    \cup {req[q].sim_id : q \in Req}
    \cup {req[q].simulation_id : q \in {q \in Req : pc[q] = "delete_us"}}
    \cup (IF last.req.op = "delete" /\ last.resp = Ok
          THEN {last.req.simulation_id} ELSE {})
    \cup (IF last.req.op = "create" /\ last.resp.status = 200
          THEN {last.req.sim_id} ELSE {})

\* C17: the id an INSERT INTO simulations gets is larger than every id
\* handed out before it (the counter of the table, the ids stored, the ids
\* other requests hold, the id of a simulation deleted last); the counter
\* never falls; and an id that enters the table was never in it before, so
\* the id of a deleted simulation does not come back.
C17_FreshIds ==
  [][/\ \A r \in Req :
          CreateInsertSimulation(r) =>
            /\ req'[r].sim_id > seq
            /\ \A id \in KnownIds : req'[r].sim_id > id
     /\ seq' >= seq
     /\ \A id \in 1..MaxId :
          (~Exists(id) /\ Exists(id)') =>
            /\ id > seq
            /\ \E s \in simulations' : s.id = id /\ s.status = RUNNING
     /\ \A s1, s2 \in simulations' : s1.id = s2.id => s1 = s2]_vars

\* simulation 1 was deleted, the table is empty and its counter is 1; a
\* create holds the write lock and its INSERT got the id 2
C17_Witness ==
  /\ simulations = {}
  /\ seq = 1
  /\ \E r \in Req :
       /\ lock = r
       /\ pc[r] = "insert_us"
       /\ req[r].sim_id = 2

\* C18 (as stated): the check of delete and its DELETE statements are one
\* transaction: a row is removed only while the caller has a membership on
\* it that allows the delete, and the committed tables do not change while
\* a request is between its check and its first DELETE.
C18_OneScope ==
  [][\A r \in Req :
       /\ (DeleteSimulation(r) /\ Exists(req[r].simulation_id)) =>
            DecisionNow(req[r].uid, req[r].simulation_id) = "allow"
       /\ (pc[r] = "delete_sim") => (store' = store)]_vars

\* C19: a current-user, list, create or delete request on a session with
\* no user id is answered Unauthenticated (401) and changes neither the
\* store nor the session; every request that goes on to the store carries
\* the user id its session was bound to, and the tables of simulations and
\* memberships change only at the commit of such a request.
C19_Unbound ==
  [][/\ \A r \in Req, c \in Clients :
          (session[c] = NoUser /\ Protected(r, c)) =>
            /\ Answers(r, Error(401, "Not authenticated"))
            /\ session' = session
     /\ \A r \in Req :
          (pc[r] = "idle" /\ pc'[r] # "idle") =>
            /\ req'[r].uid \in UserIds
            /\ req'[r].uid = session[req'[r].client]
     /\ (simulations' # simulations \/ user_simulations' # user_simulations)
          => /\ lock \in Req
             /\ pc[lock] \in {"commit_create", "commit_delete"}
             /\ req[lock].uid \in UserIds]_vars

\* a create with a proper name has just been answered 401 on an unbound
\* session, and the store holds a simulation with its memberships
C19_Witness ==
  /\ last.req.op = "create"
  /\ last.req.uid = NoUser
  /\ last.req.name = <<" ", "Q", " ">>
  /\ last.resp = Unauthenticated
  /\ session[last.req.client] = NoUser
  /\ simulations # {}
  /\ user_simulations # {}

\* C20: a login that is answered 400 or 401 leaves every session as it
\* was; a session changes only by a login of its client that succeeds (to
\* the id of the user returned), by a logout of its client, or by a
\* current-user request of its client that finds no row for the bound id.
C20_FailedLogin ==
  [][/\ (/\ last' # last
         /\ last'.req.op = "login"
         /\ last'.resp.status \in {400, 401}) => session' = session
     /\ \A c \in Clients :
          session'[c] # session[c] =>
            /\ last'.req.client = c
            /\ \/ /\ last'.req.op = "login"
                  /\ last'.resp.status = 200
                  /\ session'[c] = last'.resp.data[1].id
               \/ /\ last'.req.op = "logout"
                  /\ session'[c] = NoUser
               \/ /\ last'.req.op = "me"
                  /\ last'.resp = Unauthenticated
                  /\ session[c] \notin DOMAIN users
                  /\ session'[c] = NoUser]_vars

\* a login without a password has just been answered 400 on a session
\* that is bound to user 2, and that user still has a row
C20_Witness ==
  /\ last.req.op = "login"
  /\ last.req.password = None
  /\ last.resp = LoginRequired
  /\ session[last.req.client] = 2
  /\ 2 \in DOMAIN users

====
